---- MODULE Spec2Model ----
(***************************************************************************)
(* A model of hourglass, a terminal task list manager (src/main.rs and     *)
(* src/app/mod.rs).  One process is modelled from Hourglass::new() to the  *)
(* end of main, together with the working directory it reads and writes,   *)
(* the wall clock it reads and the terminal it configures.                 *)
(***************************************************************************)
EXTENDS Integers, Sequences, FiniteSets, TLC

VARIABLES
    hourglass,        \* the Hourglass struct (mod.rs:80-90)
    dir,              \* the working directory: file name -> content
    clock,            \* the latest instant Utc::now() has returned
    term,             \* the terminal's modes
    pc,               \* main's position
    result,           \* how main ended: "none", "ok", "err" or "panic"
    retired,          \* history: the ids of the tasks this process has removed
    overflow_checks   \* the build: TRUE panics on integer overflow (debug),
                      \* FALSE wraps (release)

vars == <<hourglass, dir, clock, term, pc, result, retired, overflow_checks>>

(***************************************************************************)
(* Bounds of the model.                                                    *)
(***************************************************************************)
MaxTasks == 2     \* longest task store
MaxInput == 1     \* longest input buffer
MaxId    == 3     \* largest value of next_id
MaxClock == 1     \* latest instant of the wall clock
MaxSel   == 2     \* largest magnitude of a selection index

(***************************************************************************)
(* Option<usize>: None is the empty sequence, Some(i) is <<i>>.            *)
(* A usize is kept as an integer v: v >= 0 stands for itself and v < 0     *)
(* stands for 2^64 + v, so that -1 is usize::MAX.                          *)
(***************************************************************************)
None == <<>>
Some(i) == <<i>>

UsizeGe(a, b) == IF (a < 0) = (b < 0) THEN a >= b ELSE a < 0

\* View::Task(Action::View), View::Task(Action::Add), View::Task(Action::Update)
Views == {"View", "Add", "Update"}

HOURGLASS_EXTENSION == "hourglass"
HOURGLASS_FILE_STORAGE_NAME == "tasks.hourglass"

\* The files the working directory can hold, each with its extension.
FileNames == {"tasks.hourglass", "notes.hourglass", "todo.txt"}
Extension(name) == IF name = "todo.txt" THEN "txt" ELSE "hourglass"

(***************************************************************************)
(* File contents.  A file is absent, or holds text: the empty string, the  *)
(* JSON text of an array of task objects, text that is not such JSON, or   *)
(* bytes that are not UTF-8.                                               *)
(***************************************************************************)
Absent    == [kind |-> "absent"]
EmptyText == [kind |-> "empty"]
Garbage   == [kind |-> "garbage"]
Binary    == [kind |-> "binary"]
JsonArray(items) == [kind |-> "json", items |-> items]

\* date_format_for_serde::serialize: the RFC 3339 string of an instant
to_rfc3339(t) == <<"rfc3339", t>>
\* date_format_for_serde::deserialize: str::parse::<DateTime<Utc>>
parse_datetime(s) == s[2]

\* #[derive(Serialize)] for Task: one JSON object per task
serialize_task(task) ==
    [id          |-> task.id,
     description |-> <<"str", task.description>>,
     completed   |-> task.completed,
     created_at  |-> to_rfc3339(task.created_at),
     modified_at |-> to_rfc3339(task.modified_at)]

\* #[derive(Deserialize)] for Task
deserialize_task(obj) ==
    [id          |-> obj.id,
     description |-> obj.description[2],
     completed   |-> obj.completed,
     created_at  |-> parse_datetime(obj.created_at),
     modified_at |-> parse_datetime(obj.modified_at)]

\* serde_json::to_string(&self.tasks)
to_string(tasks) ==
    JsonArray([i \in 1..Len(tasks) |-> serialize_task(tasks[i])])

\* from_str with a parse error turned into an empty store
from_str_or_default(content) ==
    IF content.kind = "json"
    THEN [ok |-> TRUE,
          val |-> [i \in 1..Len(content.items) |-> deserialize_task(content.items[i])]]
    ELSE [ok |-> TRUE, val |-> <<>>]

\* serde_json::from_str::<Vec<Task>>(&content): Ok(tasks) or Err
from_str(content) ==
    IF content.kind = "json"
    THEN [ok |-> TRUE,
          val |-> [i \in 1..Len(content.items) |-> deserialize_task(content.items[i])]]
    ELSE [ok |-> FALSE, val |-> <<>>]

(***************************************************************************)
(* Hourglass::new                                                          *)
(***************************************************************************)
new ==
    [should_quit |-> FALSE,
     input       |-> <<>>,
     view        |-> "View",
     next_id     |-> 1,
     tasks       |-> <<>>,
     table_state |-> None]

\* A machine state while a handler runs: the struct, the directory, the
\* latest instant read from the clock, and whether the handler has panicked.
Machine(self, d, c) == [self |-> self, dir |-> d, clock |-> c, panic |-> FALSE]
Panic(m) == [m EXCEPT !.panic = TRUE]

(***************************************************************************)
(* Key events.  KeyCode::Char(c) for the command characters and one other  *)
(* character, the named keys the handlers match, and one key (Tab) that no *)
(* handler matches.                                                        *)
(***************************************************************************)
Chars == {"q", "j", "k", "d", "a", "u", "x", "z"}
Char(c) == [code |-> "Char", c |-> c]
Key(code) == [code |-> code, c |-> ""]
KeyCodes == {Char(c) : c \in Chars} \cup
            {Key(k) : k \in {"Enter", "Backspace", "Esc", "Up", "Down", "Tab"}}

\* The characters typed while a command's text is entered
TextChars == {"q"}

\* What fs::write can do: succeed, fail leaving the file as it was, or fail
\* after truncating it.
WriteOutcomes == {"ok", "fail", "fail_truncated"}

\* Vec::get_mut / Vec::remove: index i is in bounds
InBounds(i, tasks) == i >= 0 /\ i < Len(tasks)

\* TableState::select
select(m, sel) == [m EXCEPT !.self.table_state = sel]

(***************************************************************************)
(* Hourglass::save_tasks: serialize the whole store and overwrite the      *)
(* storage file; a failed write panics (expect).                           *)
(***************************************************************************)
save_tasks(m, wr) ==
    LET serialized == to_string(m.self.tasks) IN
    CASE wr = "ok" ->
            [m EXCEPT !.dir[HOURGLASS_FILE_STORAGE_NAME] = serialized]
      [] wr = "fail" -> Panic(m)
      [] OTHER ->
            Panic([m EXCEPT !.dir[HOURGLASS_FILE_STORAGE_NAME] = EmptyText])

\* next without the wrap: the last index stays selected
next_clamped(m, oc) ==
    LET sel == m.self.table_state
        len == Len(m.self.tasks)
    IN  IF sel = None THEN select(m, Some(0))
        ELSE IF len = 0 /\ oc THEN Panic(m)
        ELSE LET i == sel[1]
                 last == len - 1
             IN  select(m, Some(IF UsizeGe(i, last) THEN i ELSE i + 1))

(***************************************************************************)
(* Hourglass::next.  tasks.len() - 1 is computed whenever something is     *)
(* selected: on an empty store it overflows, which panics in a build with  *)
(* overflow checks and wraps to usize::MAX in one without.                 *)
(***************************************************************************)
next(m, oc) ==
    LET sel == m.self.table_state
        len == Len(m.self.tasks)
    IN  IF sel = None THEN select(m, Some(0))
        ELSE IF len = 0 /\ oc THEN Panic(m)
        ELSE LET i == sel[1]
                 last == len - 1
             IN  select(m, Some(IF UsizeGe(i, last) THEN 0 ELSE i + 1))

\* previous without the wrap: index 0 stays selected
previous_clamped(m, oc) ==
    LET sel == m.self.table_state
    IN  IF sel = None THEN select(m, Some(0))
        ELSE LET i == sel[1] IN
             IF i = 0 THEN select(m, Some(0)) ELSE select(m, Some(i - 1))

(***************************************************************************)
(* Hourglass::previous                                                     *)
(***************************************************************************)
previous(m, oc) ==
    LET sel == m.self.table_state
        len == Len(m.self.tasks)
    IN  IF sel = None THEN select(m, Some(0))
        ELSE LET i == sel[1] IN
             IF i = 0
             THEN IF len = 0 /\ oc THEN Panic(m) ELSE select(m, Some(len - 1))
             ELSE select(m, Some(i - 1))

\* toggle_task_status that marks the task done instead of flipping the flag
toggle_mark_done(m) ==
    LET sel == m.self.table_state IN
    IF sel # None /\ InBounds(sel[1], m.self.tasks)
    THEN [m EXCEPT !.self.tasks[sel[1] + 1].completed = TRUE]
    ELSE m

(***************************************************************************)
(* Hourglass::toggle_task_status                                           *)
(***************************************************************************)
toggle_task_status(m) ==
    LET sel == m.self.table_state IN
    IF sel # None /\ InBounds(sel[1], m.self.tasks)
    THEN [m EXCEPT !.self.tasks[sel[1] + 1].completed = ~@]
    ELSE m

\* add_task that does not write the store to the storage file
add_task_unsaved(m, time, wr) ==
    LET task == [id          |-> m.self.next_id,
                 description |-> m.self.input,
                 completed   |-> FALSE,
                 created_at  |-> time,
                 modified_at |-> time]
    IN  [m EXCEPT !.clock = time,
                  !.self.input = <<>>,
                  !.self.tasks = Append(@, task),
                  !.self.next_id = @ + 1]

(***************************************************************************)
(* Hourglass::add_task; `time` is what Utc::now() returns                  *)
(***************************************************************************)
add_task(m, time, wr) ==
    LET description == m.self.input
        task == [id          |-> m.self.next_id,
                 description |-> description,
                 completed   |-> FALSE,
                 created_at  |-> time,
                 modified_at |-> time]
        pushed == [m EXCEPT !.clock = time,
                            !.self.input = <<>>,
                            !.self.tasks = Append(@, task),
                            !.self.next_id = @ + 1]
    IN  save_tasks(pushed, wr)

(***************************************************************************)
(* Hourglass::update_task; `time` is what Utc::now() returns               *)
(***************************************************************************)
update_task(m, time, wr) ==
    LET sel == m.self.table_state
        updated ==
            IF sel # None /\ InBounds(sel[1], m.self.tasks)
            THEN save_tasks(
                    [m EXCEPT !.clock = time,
                              !.self.tasks[sel[1] + 1].description = m.self.input,
                              !.self.tasks[sel[1] + 1].modified_at = time],
                    wr)
            ELSE m
    IN  IF updated.panic THEN updated
        ELSE [updated EXCEPT !.self.input = <<>>]

\* A remove that drops the last task whatever the index
remove_last(tasks, index) ==
    [j \in 1..(Len(tasks) - 1) |-> tasks[j]]

\* Vec::remove(index) on an index in bounds
remove(tasks, index) ==
    [j \in 1..(Len(tasks) - 1) |-> IF j <= index THEN tasks[j] ELSE tasks[j + 1]]

(***************************************************************************)
(* Hourglass::remove_task.  Vec::remove panics when index >= len.          *)
(***************************************************************************)
remove_task(m, wr) ==
    LET sel == m.self.table_state IN
    IF sel = None THEN m
    ELSE IF ~InBounds(sel[1], m.self.tasks) THEN Panic(m)
    ELSE save_tasks([m EXCEPT !.self.tasks = remove(@, sel[1])], wr)

\* update_command_input whose Esc leaves the input line as it is
update_command_input_esc_keeps(m, key, time, wr) ==
    CASE key.code = "Char" -> [m EXCEPT !.self.input = Append(@, key.c)]
      [] key.code = "Enter" ->
            IF m.self.view = "Add"
            THEN LET added == add_task(m, time, wr) IN
                 IF added.panic THEN added
                 ELSE [added EXCEPT !.self.view = "View"]
            ELSE IF m.self.view = "Update"
            THEN LET updated == update_task(m, time, wr) IN
                 IF updated.panic THEN updated
                 ELSE [updated EXCEPT !.self.view = "View"]
            ELSE m
      [] key.code = "Backspace" ->
            [m EXCEPT !.self.input =
                IF Len(@) = 0 THEN @ ELSE SubSeq(@, 1, Len(@) - 1)]
      [] key.code = "Esc" -> [m EXCEPT !.self.view = "View"]
      [] OTHER -> m

(***************************************************************************)
(* Hourglass::update_command_input                                         *)
(***************************************************************************)
update_command_input(m, key, time, wr) ==
    CASE key.code = "Char" -> [m EXCEPT !.self.input = Append(@, key.c)]
      [] key.code = "Enter" ->
            IF m.self.view = "Add"
            THEN LET added == add_task(m, time, wr) IN
                 IF added.panic THEN added
                 ELSE [added EXCEPT !.self.view = "View"]
            ELSE IF m.self.view = "Update"
            THEN LET updated == update_task(m, time, wr) IN
                 IF updated.panic THEN updated
                 ELSE [updated EXCEPT !.self.view = "View"]
            ELSE m
      [] key.code = "Backspace" ->
            [m EXCEPT !.self.input =
                IF Len(@) = 0 THEN @ ELSE SubSeq(@, 1, Len(@) - 1)]
      [] key.code = "Esc" ->
            [m EXCEPT !.self.input = <<>>, !.self.view = "View"]
      [] OTHER -> m

(***************************************************************************)
(* Hourglass::handle_key_for_task_view                                     *)
(***************************************************************************)
handle_key_for_task_view(m, key, wr, oc) ==
    CASE key.code = "Char" ->
            CASE key.c = "q" -> [m EXCEPT !.self.should_quit = TRUE]
              [] key.c = "j" -> next(m, oc)
              [] key.c = "k" -> previous(m, oc)
              [] key.c = "d" -> toggle_task_status(m)
              [] key.c = "a" -> [m EXCEPT !.self.view = "Add"]
              [] key.c = "u" -> [m EXCEPT !.self.view = "Update"]
              [] key.c = "x" -> remove_task(m, wr)
              [] OTHER -> m
      [] key.code = "Down" -> next(m, oc)
      [] key.code = "Up" -> previous(m, oc)
      [] OTHER -> m

\* handle_input that takes every key as a key of the task view
handle_input_task_view(m, key, time, wr, oc) ==
    handle_key_for_task_view(m, key, wr, oc)

(***************************************************************************)
(* Hourglass::handle_input                                                 *)
(***************************************************************************)
handle_input(m, key, time, wr, oc) ==
    IF m.self.view = "View"
    THEN handle_key_for_task_view(m, key, wr, oc)
    ELSE update_command_input(m, key, time, wr)

(***************************************************************************)
(* Hourglass::load_tasks.  read_dir lists the directory in no particular   *)
(* order; every entry with the hourglass extension is read and parsed, and *)
(* each one parsed replaces the store.  A parse error returns at once; an  *)
(* unreadable file panics (expect).  When no entry had the extension an    *)
(* empty storage file is written; `wr` says whether that write succeeds.   *)
(* Failures of env::current_dir and of read_dir itself are left out.       *)
(***************************************************************************)
RECURSIVE load_loop(_, _, _)
load_loop(st, d, paths) ==
    IF paths = <<>> \/ st.outcome # "ok" THEN st
    ELSE LET file_path == Head(paths) IN
         IF Extension(file_path) = HOURGLASS_EXTENSION
         THEN LET content == d[file_path]
                  datas == from_str(content)
              IN  IF content.kind = "binary"
                  THEN [st EXCEPT !.file_exists = TRUE, !.outcome = "panic"]
                  ELSE IF ~datas.ok
                  THEN [st EXCEPT !.file_exists = TRUE, !.outcome = "err"]
                  ELSE load_loop([st EXCEPT !.file_exists = TRUE,
                                            !.tasks = datas.val],
                                 d, Tail(paths))
         ELSE load_loop(st, d, Tail(paths))

load_tasks(self, d, paths, wr) ==
    LET st == load_loop([tasks |-> self.tasks, file_exists |-> FALSE,
                         outcome |-> "ok"], d, paths)
        loaded == [self EXCEPT !.tasks = st.tasks]
    IN  IF st.outcome # "ok"
        THEN [self |-> loaded, dir |-> d, outcome |-> st.outcome]
        ELSE IF ~st.file_exists
        THEN IF wr = "ok"
             THEN [self |-> loaded,
                   dir |-> [d EXCEPT ![HOURGLASS_FILE_STORAGE_NAME] = EmptyText],
                   outcome |-> "ok"]
             ELSE [self |-> loaded, dir |-> d, outcome |-> "err"]
        ELSE [self |-> loaded, dir |-> d, outcome |-> "ok"]

\* The orders in which read_dir can list the files of a directory
Present(d) == {n \in FileNames : d[n] # Absent}
Listings(d) ==
    {p \in [1..Cardinality(Present(d)) -> Present(d)] :
        \A i, j \in DOMAIN p : i # j => p[i] # p[j]}

(***************************************************************************)
(* The terminal.                                                           *)
(***************************************************************************)
NormalTerm == [raw_mode |-> FALSE, alternate_screen |-> FALSE,
               mouse_capture |-> FALSE, cursor_hidden |-> FALSE]

(***************************************************************************)
(* Hourglass::start_tui.  Each of its three fallible calls can fail        *)
(* (fail_at = 1, 2, 3); `entered` says whether a failing execute! had      *)
(* already entered the alternate screen.                                   *)
(***************************************************************************)
start_tui(t, fail_at, entered) ==
    CASE fail_at = 1 -> [term |-> t, ok |-> FALSE]
      [] fail_at = 2 ->
            [term |-> [t EXCEPT !.raw_mode = TRUE, !.alternate_screen = entered],
             ok |-> FALSE]
      [] OTHER ->
            [term |-> [t EXCEPT !.raw_mode = TRUE, !.alternate_screen = TRUE,
                                !.mouse_capture = TRUE],
             ok |-> fail_at = 0]

(***************************************************************************)
(* Hourglass::pause_tui.  fail_at = 1..4 names the fallible call that      *)
(* fails: Terminal::new, disable_raw_mode, execute!, show_cursor.          *)
(***************************************************************************)
pause_tui(t, fail_at) ==
    CASE fail_at = 1 -> [term |-> t, ok |-> FALSE]
      [] fail_at = 2 -> [term |-> t, ok |-> FALSE]
      [] fail_at = 3 -> [term |-> [t EXCEPT !.raw_mode = FALSE], ok |-> FALSE]
      [] fail_at = 4 ->
            [term |-> [t EXCEPT !.raw_mode = FALSE, !.alternate_screen = FALSE,
                                !.mouse_capture = FALSE],
             ok |-> FALSE]
      [] OTHER -> [term |-> NormalTerm, ok |-> TRUE]

(***************************************************************************)
(* Initial states: a fresh process in a working directory where the        *)
(* program has not run yet.  The storage file is absent, not JSON or not   *)
(* text; a second file with the extension, holding the JSON text of an     *)
(* empty array, may lie beside it.  The files earlier runs leave behind    *)
(* are reached through Restart.                                            *)
(***************************************************************************)
InitDirs ==
    {[n \in FileNames |->
        CASE n = "tasks.hourglass" -> a
          [] n = "notes.hourglass" -> b
          [] OTHER -> Garbage] :
      a \in {Absent, Garbage, Binary},
      b \in {Absent, to_string(<<>>)}}

Init ==
    /\ hourglass = new
    /\ dir \in InitDirs
    /\ clock = 0
    /\ term = NormalTerm
    /\ pc = "start"
    /\ result = "none"
    /\ retired = {}
    /\ overflow_checks \in BOOLEAN

\* The keys the user presses: any key while browsing, and while a command's
\* text is entered any key except the characters outside TextChars
Typed(self) ==
    IF self.view = "View" THEN KeyCodes
    ELSE {k \in KeyCodes : k.code = "Char" => k.c \in TextChars}

\* The outcomes of fs::write and of Utc::now() to consider for a key: only
\* Enter and x can reach save_tasks, only Enter can reach Utc::now().  Here
\* the wall clock is taken not to step back between two readings; SpecUpdate
\* below lets it return any instant.
WritesFor(key) ==
    IF key.code = "Enter" \/ key = Char("x") THEN WriteOutcomes ELSE {"ok"}
NowFor(key, c) ==
    IF key.code = "Enter" THEN c..MaxClock ELSE {c}

\* The caps that keep the model finite
WithinBounds(self) ==
    /\ Len(self.tasks) <= MaxTasks
    /\ Len(self.input) <= MaxInput
    /\ self.next_id <= MaxId
    /\ self.table_state # None =>
          /\ self.table_state[1] <= MaxSel
          /\ self.table_state[1] >= -MaxSel

(***************************************************************************)
(* main, line 9: hourglass.load_tasks()?                                   *)
(***************************************************************************)
Load ==
    /\ pc = "start"
    /\ \E paths \in Listings(dir), wr \in {"ok", "fail"} :
          LET l == load_tasks(hourglass, dir, paths, wr) IN
          /\ hourglass' = IF l.outcome = "ok" THEN l.self ELSE new
          /\ dir' = l.dir
          /\ pc' = IF l.outcome = "ok" THEN "loaded" ELSE "exited"
          /\ result' = IF l.outcome = "ok" THEN "none" ELSE l.outcome
    /\ UNCHANGED <<clock, term, retired, overflow_checks>>

(***************************************************************************)
(* main, line 12: Hourglass::start_tui()?                                  *)
(***************************************************************************)
StartTui ==
    /\ pc = "loaded"
    /\ \E fail_at \in 0..3, entered \in BOOLEAN :
          LET s == start_tui(term, fail_at, entered) IN
          /\ term' = s.term
          /\ pc' = IF s.ok THEN "run" ELSE "exited"
          /\ result' = IF s.ok THEN "none" ELSE "err"
    /\ UNCHANGED <<hourglass, dir, clock, retired, overflow_checks>>

(***************************************************************************)
(* main, lines 14-16, once run has returned r ("ok" or "err"):             *)
(* Hourglass::pause_tui()?; r.  The process ends and its memory is gone.   *)
(***************************************************************************)
Finish(run_result) ==
    /\ \E fail_at \in 0..4 :
          LET p == pause_tui([term EXCEPT !.cursor_hidden = TRUE], fail_at) IN
          /\ term' = p.term
          /\ result' = IF p.ok THEN run_result ELSE "err"
    /\ pc' = "exited"
    /\ hourglass' = new
    /\ retired' = {}

(***************************************************************************)
(* Hourglass::run, one iteration of its loop: draw, poll, read,            *)
(* handle_input and the quit check.                                        *)
(***************************************************************************)
\* terminal.draw, poll or read returns an error: run returns it
RunIoError ==
    /\ pc = "run"
    /\ Finish("err")
    /\ UNCHANGED <<dir, clock, overflow_checks>>

\* poll times out, or the event read is not a key
RunNoKey ==
    /\ pc = "run"
    /\ term' = [term EXCEPT !.cursor_hidden = TRUE]
    /\ UNCHANGED <<hourglass, dir, clock, pc, result, retired, overflow_checks>>

\* The ids of the tasks a handler took out of the store: the store shrinks
\* only in remove_task, by the task at the selected index
Removed(self, after) ==
    IF Len(after.tasks) < Len(self.tasks)
    THEN {self.tasks[self.table_state[1] + 1].id}
    ELSE {}

\* A loop without the quit check: it goes round whatever the quit flag
Handled_unchecked_quit(m) ==
    /\ clock' = m.clock
    /\ dir' = m.dir
    /\ IF m.panic
       THEN /\ hourglass' = new
            /\ retired' = {}
            /\ term' = [term EXCEPT !.cursor_hidden = TRUE]
            /\ pc' = "exited"
            /\ result' = "panic"
       ELSE /\ hourglass' = m.self
            /\ retired' = retired \cup Removed(hourglass, m.self)
            /\ term' = [term EXCEPT !.cursor_hidden = TRUE]
            /\ UNCHANGED <<pc, result>>

\* What follows handle_input having left the machine m: a panic ends the
\* process where it is, a set quit flag makes run return Ok, and otherwise
\* the loop goes round
Handled(m) ==
    /\ clock' = m.clock
    /\ dir' = m.dir
    /\ IF m.panic
       THEN /\ hourglass' = new
            /\ retired' = {}
            /\ term' = [term EXCEPT !.cursor_hidden = TRUE]
            /\ pc' = "exited"
            /\ result' = "panic"
       ELSE IF m.self.should_quit
       THEN Finish("ok")
       ELSE /\ hourglass' = m.self
            /\ retired' = retired \cup Removed(hourglass, m.self)
            /\ term' = [term EXCEPT !.cursor_hidden = TRUE]
            /\ UNCHANGED <<pc, result>>

\* The key event `key` is read and handled
Press(key) ==
    /\ pc = "run"
    /\ \E wr \in WritesFor(key), now \in NowFor(key, clock) :
          LET m == handle_input(Machine(hourglass, dir, clock), key, now, wr,
                                overflow_checks)
          IN  /\ WithinBounds(m.self)
              /\ Handled(m)
    /\ UNCHANGED overflow_checks

RunKey == \E key \in Typed(hourglass) : Press(key)

\* The program is started again in the same directory, in a fresh terminal
Restart ==
    /\ pc = "exited"
    /\ hourglass' = new
    /\ term' = NormalTerm
    /\ pc' = "start"
    /\ result' = "none"
    /\ UNCHANGED <<dir, clock, retired, overflow_checks>>

Next ==
    \/ Load
    \/ StartTui
    \/ RunIoError
    \/ RunNoKey
    \/ RunKey
    \/ Restart

Spec == Init /\ [][Next]_vars

(***************************************************************************)
(* Properties.                                                             *)
(***************************************************************************)
Selected == hourglass.table_state
StorageFile == dir[HOURGLASS_FILE_STORAGE_NAME]
Browsing == pc = "run" /\ hourglass.view = "View"
StaleSelection ==
    Selected # None /\ ~InBounds(Selected[1], hourglass.tasks)

\* C1: while the session runs, the selection cursor is None or an index
\* strictly less than the number of tasks.
C1_SelectionInBounds ==
    pc = "run" => (Selected = None \/ InBounds(Selected[1], hourglass.tasks))

\* C2: no two tasks in the store have the same id.
C2_UniqueIds ==
    \A i, j \in 1..Len(hourglass.tasks) :
        i # j => hourglass.tasks[i].id # hourglass.tasks[j].id

\* C3: when the handling of a key event has changed the task store and
\* control is back in the input loop, the storage file holds exactly the
\* store in memory.
C3_StoreChangePersisted ==
    [][(RunKey /\ pc' = "run" /\ hourglass'.tasks # hourglass.tasks)
          => dir'[HOURGLASS_FILE_STORAGE_NAME] = to_string(hourglass'.tasks)]_vars

\* C4: a key pressed while browsing with a selection that is not a valid
\* index of the store never panics and leaves the store as it was.
C4_StaleSelectionIsNoOp ==
    [][(Browsing /\ StaleSelection /\ RunKey)
          => /\ result' # "panic"
             /\ pc' = "run" => hourglass'.tasks = hourglass.tasks]_vars

\* C5: with exactly one task, selected, 'x' pressed while browsing leaves
\* the store empty, the selection None and the storage file holding an empty
\* sequence.
C5_RemoveLastTask ==
    [][(Browsing /\ Len(hourglass.tasks) = 1 /\ Selected = Some(0)
            /\ Press(Char("x")) /\ pc' = "run")
          => /\ hourglass'.tasks = <<>>
             /\ hourglass'.table_state = None
             /\ dir'[HOURGLASS_FILE_STORAGE_NAME] = to_string(<<>>)]_vars

\* C6: 'j' or Down pressed while browsing an empty store is a no-op that
\* leaves the selection None.
C6_AdvanceOnEmptyStore ==
    [][(Browsing /\ hourglass.tasks = <<>>
            /\ (Press(Char("j")) \/ Press(Key("Down"))))
          => /\ pc' = "run"
             /\ hourglass'.tasks = <<>>
             /\ hourglass'.table_state = None]_vars

\* C7: in a directory whose only file with the extension, if any, is the
\* storage file: load of an empty storage file succeeds with an empty store;
\* load with the storage file missing creates it, and then has succeeded
\* with an empty store.
C7_LoadToleratesMissingOrEmpty ==
    [][(pc = "start" /\ dir["notes.hourglass"] = Absent /\ Load)
          => /\ StorageFile = EmptyText
                => pc' = "loaded" /\ hourglass'.tasks = <<>>
             /\ (StorageFile = Absent
                    /\ dir'[HOURGLASS_FILE_STORAGE_NAME] # Absent)
                => /\ pc' = "loaded"
                   /\ hourglass'.tasks = <<>>
                   /\ dir'[HOURGLASS_FILE_STORAGE_NAME] = EmptyText]_vars

\* C8: whenever the process has ended, the terminal is restored: raw mode
\* off, alternate screen left, mouse capture off, cursor shown.
C8_TerminalRestoredOnExit ==
    pc = "exited" => term = NormalTerm

\* C9: within one process the next-id counter never decreases, a task
\* appended to the store gets the counter's value and the counter then
\* grows, and that id is not the id of a task the process removed earlier.
C9_IdsNeverReused ==
    [][(pc = "run" /\ pc' = "run")
          => /\ hourglass'.next_id >= hourglass.next_id
             /\ Len(hourglass'.tasks) > Len(hourglass.tasks)
                => LET given == hourglass'.tasks[Len(hourglass'.tasks)].id IN
                   /\ given = hourglass.next_id
                   /\ hourglass'.next_id > given
                   /\ given \notin retired]_vars

RunningTerm == start_tui(NormalTerm, 0, TRUE).term

SeedTask(i) ==
    CASE i = 1 -> [id |-> 1, description |-> <<"q">>, completed |-> FALSE,
                   created_at |-> 0, modified_at |-> 0]
      [] i = 2 -> [id |-> 2, description |-> <<>>, completed |-> TRUE,
                   created_at |-> 0, modified_at |-> 1]
      [] OTHER -> [id |-> 3, description |-> <<"x">>, completed |-> FALSE,
                   created_at |-> 1, modified_at |-> 1]

\* Stores of up to two of the three seed tasks, no task twice
SeedStores ==
    {<<>>} \cup {<<SeedTask(i)>> : i \in 1..3}
      \cup {<<SeedTask(p[1]), SeedTask(p[2])>> :
               p \in {q \in (1..3) \X (1..3) : q[1] # q[2]}}

BackingNames == {n \in FileNames : Extension(n) = HOURGLASS_EXTENSION}

RTInit ==
    /\ \E s \in SeedStores : hourglass = [new EXCEPT !.tasks = s]
    /\ \E n \in BackingNames, s0 \in SeedStores :
          dir = [f \in FileNames |->
                    IF f = n THEN to_string(s0)
                    ELSE IF Extension(f) = HOURGLASS_EXTENSION THEN Absent
                    ELSE Garbage]
    /\ clock = MaxClock
    /\ term = RunningTerm
    /\ pc = "run"
    /\ result = "none"
    /\ retired = {}
    /\ overflow_checks \in BOOLEAN

\* save_tasks of the store in memory, the write succeeding
RTSave ==
    /\ pc = "run"
    /\ dir' = save_tasks(Machine(hourglass, dir, clock), "ok").dir
    /\ pc' = "saved"
    /\ UNCHANGED <<hourglass, clock, term, result, retired, overflow_checks>>

\* load_tasks of the next process, in any listing order
RTLoad ==
    /\ pc = "saved"
    /\ \E paths \in Listings(dir) :
          LET l == load_tasks(new, dir, paths, "ok") IN
          /\ hourglass' = l.self
          /\ dir' = l.dir
          /\ pc' = IF l.outcome = "ok" THEN "loaded" ELSE "exited"
          /\ result' = IF l.outcome = "ok" THEN "none" ELSE l.outcome
    /\ term' = NormalTerm
    /\ UNCHANGED <<clock, retired, overflow_checks>>

RTNext ==
    \/ RTSave
    \/ RTLoad

SpecRoundTrip == RTInit /\ [][RTNext]_vars

\* C11: in a directory that holds exactly one file with the extension,
\* whatever its base name, the store written by a save is the store the next
\* start's load returns, equal in every field and in order.
C11_RoundTrip ==
    [][RTLoad => (pc' = "loaded" /\ hourglass'.tasks = hourglass.tasks)]_vars

(***************************************************************************)
(* A browsing session on its own: the run loop over a store of up to       *)
(* BrowseTasks tasks loaded from the storage file, with every key of the   *)
(* task view except those that open the input line.                        *)
(***************************************************************************)
BrowseTasks == 3

BrowseKeys == KeyCodes \ {Char("a"), Char("u")}

BrowseInit ==
    /\ \E n \in 0..BrowseTasks :
          LET store == [i \in 1..n |-> SeedTask(i)] IN
          /\ hourglass = [new EXCEPT !.tasks = store]
          /\ dir = [f \in FileNames |->
                      IF f = HOURGLASS_FILE_STORAGE_NAME THEN to_string(store)
                      ELSE IF Extension(f) = HOURGLASS_EXTENSION THEN Absent
                      ELSE Garbage]
    /\ clock = MaxClock
    /\ term = RunningTerm
    /\ pc = "run"
    /\ result = "none"
    /\ retired = {}
    /\ overflow_checks \in BOOLEAN

\* The cap on a selection that has wrapped below zero
SelectionWithinBounds(self) ==
    self.table_state # None =>
       /\ self.table_state[1] <= MaxSel
       /\ self.table_state[1] >= -MaxSel

\* One iteration of run's loop on the key event `key`
BrowsePress(key) ==
    /\ pc = "run"
    /\ \E wr \in WritesFor(key) :
          LET m == handle_input(Machine(hourglass, dir, clock), key, clock, wr,
                                overflow_checks)
          IN  /\ SelectionWithinBounds(m.self)
              /\ Handled(m)
    /\ UNCHANGED overflow_checks

BrowseKey == \E key \in BrowseKeys : BrowsePress(key)

BrowseNext ==
    \/ BrowseKey
    \/ RunNoKey

SpecBrowse == BrowseInit /\ [][BrowseNext]_vars

ValidSelection == Selected # None /\ InBounds(Selected[1], hourglass.tasks)

\* C12: on a non-empty store of length len, advancing ('j' or Down) with no
\* selection selects index 0 and advancing from a valid selection i selects
\* (i + 1) mod len; in a 3-task store that is 0 -> 1 -> 2 -> 0.
C12_AdvanceWraps ==
    (/\ Browsing
     /\ Len(hourglass.tasks) > 0
     /\ Selected = None \/ ValidSelection)
    => \A key \in {Char("j"), Key("Down")} :
          LET m == handle_input(Machine(hourglass, dir, clock), key, clock,
                                "ok", overflow_checks)
          IN  /\ ~m.panic
              /\ m.self.table_state =
                    IF Selected = None THEN Some(0)
                    ELSE Some((Selected[1] + 1) % Len(hourglass.tasks))
              /\ m.self.tasks = hourglass.tasks

\* The last index of a 3-task store is selected
C12_Witness ==
    Browsing /\ Len(hourglass.tasks) = BrowseTasks /\ Selected = Some(BrowseTasks - 1)

\* C13: on a non-empty store with a valid selection i, advance then retreat
\* and retreat then advance both return the selection to i.
C13_AdvanceRetreatInverse ==
    (Browsing /\ ValidSelection) =>
        LET m == Machine(hourglass, dir, clock)
            j(x) == handle_input(x, Char("j"), clock, "ok", overflow_checks)
            k(x) == handle_input(x, Char("k"), clock, "ok", overflow_checks)
        IN  /\ k(j(m)).self.table_state = Selected
            /\ j(k(m)).self.table_state = Selected
            /\ ~k(j(m)).panic /\ ~j(k(m)).panic
            /\ Selected = Some(0) =>
                  k(m).self.table_state = Some(Len(hourglass.tasks) - 1)

\* Index 0 of a store of several tasks is selected, where retreat wraps
C13_Witness ==
    Browsing /\ Len(hourglass.tasks) > 1 /\ Selected = Some(0)

\* C14: 'd' flips the completed flag of the selected task and changes nothing
\* else in the store (no other field of that task, no other task), so 'd'
\* pressed twice gives back the original flag.
C14_ToggleTwiceRestores ==
    Browsing =>
        LET m == Machine(hourglass, dir, clock)
            d(x) == handle_input(x, Char("d"), clock, "ok", overflow_checks)
        IN  /\ ~d(m).panic /\ ~d(d(m)).panic
            /\ d(d(m)).self.tasks = hourglass.tasks
            /\ d(m).self.table_state = Selected
            /\ Len(d(m).self.tasks) = Len(hourglass.tasks)
            /\ \A n \in 1..Len(hourglass.tasks) :
                  LET before == hourglass.tasks[n]
                      after == d(m).self.tasks[n]
                  IN  IF Selected = Some(n - 1)
                      THEN after = [before EXCEPT !.completed = ~before.completed]
                      ELSE after = before

\* The first seed task is selected among several and has been marked done
C14_Witness ==
    /\ Browsing /\ ValidSelection
    /\ Len(hourglass.tasks) > 1
    /\ hourglass.tasks[Selected[1] + 1].id = 1
    /\ hourglass.tasks[Selected[1] + 1].completed

\* C15: Enter in the Add view, the write succeeding, appends exactly one task
\* at the end of the store, with id = the counter before, description = the
\* input buffer, completed = FALSE and created_at = modified_at; the tasks
\* already there keep their fields and order; the storage file holds the new
\* store; the view is the task view again.  On an empty store in a process
\* that has added and removed nothing the new task's id is 1.
C15_AddCommit ==
    (pc = "run" /\ hourglass.view = "Add") =>
        \A now \in clock..MaxClock :
            LET m == handle_input(Machine(hourglass, dir, clock), Key("Enter"),
                                  now, "ok", overflow_checks)
                n == Len(hourglass.tasks)
                task == m.self.tasks[n + 1]
            IN  /\ ~m.panic
                /\ Len(m.self.tasks) = n + 1
                /\ SubSeq(m.self.tasks, 1, n) = hourglass.tasks
                /\ task.id = hourglass.next_id
                /\ task.description = hourglass.input
                /\ task.completed = FALSE
                /\ task.created_at = task.modified_at
                /\ m.dir[HOURGLASS_FILE_STORAGE_NAME] = to_string(m.self.tasks)
                /\ m.self.view = "View"
                /\ ~m.self.should_quit
                /\ (n = 0 /\ retired = {}) => task.id = 1

\* A first task has been added to an empty store and saved
C15_Witness ==
    /\ Browsing
    /\ Len(hourglass.tasks) = 1
    /\ hourglass.tasks[1].id = 1
    /\ hourglass.next_id = 2
    /\ retired = {}
    /\ StorageFile = to_string(hourglass.tasks)

(***************************************************************************)
(* A session on the input line of the Update view: a loaded store of up to *)
(* two seed tasks, any selection, 'u' from the task view and the keys of   *)
(* the input line.  Utc::now() is the system's wall clock: it returns any  *)
(* instant, earlier ones included.                                         *)
(***************************************************************************)
EditInit ==
    /\ \E n \in 0..MaxTasks, sel \in {None} \cup {Some(i) : i \in 0..MaxSel} :
          LET store == [i \in 1..n |-> SeedTask(i)] IN
          /\ hourglass = [new EXCEPT !.tasks = store, !.table_state = sel]
          /\ dir = [f \in FileNames |->
                      IF f = HOURGLASS_FILE_STORAGE_NAME THEN to_string(store)
                      ELSE IF Extension(f) = HOURGLASS_EXTENSION THEN Absent
                      ELSE Garbage]
    /\ clock = 0
    /\ term = RunningTerm
    /\ pc = "run"
    /\ result = "none"
    /\ retired = {}
    /\ overflow_checks \in BOOLEAN

UpdateKeys(self) ==
    IF self.view = "View" THEN {Char("u")} ELSE Typed(self)

\* One iteration of run's loop on the key event `key`
UpdatePress(key) ==
    /\ pc = "run"
    /\ \E wr \in WritesFor(key), now \in 0..MaxClock :
          LET m == handle_input(Machine(hourglass, dir, clock), key,
                                IF key.code = "Enter" THEN now ELSE clock, wr,
                                overflow_checks)
          IN  /\ WithinBounds(m.self)
              /\ Handled(m)
    /\ UNCHANGED overflow_checks

UpdateKey == \E key \in UpdateKeys(hourglass) : UpdatePress(key)

UpdateNext ==
    \/ UpdateKey
    \/ RunNoKey

SpecUpdate == EditInit /\ [][UpdateNext]_vars

\* What Enter in the Update view does to the store, the buffer and the view,
\* the order of the old and the new modified_at left aside
UpdateCommitEffect(now) ==
    LET m == handle_input(Machine(hourglass, dir, clock), Key("Enter"), now,
                          "ok", overflow_checks)
    IN  /\ ~m.panic
        /\ m.self.input = <<>>
        /\ m.self.view = "View"
        /\ m.self.table_state = Selected
        /\ IF ValidSelection
           THEN /\ Len(m.self.tasks) = Len(hourglass.tasks)
                /\ \A n \in 1..Len(hourglass.tasks) :
                      LET before == hourglass.tasks[n]
                          after == m.self.tasks[n]
                      IN  IF Selected = Some(n - 1)
                          THEN after = [before EXCEPT
                                           !.description = hourglass.input,
                                           !.modified_at = after.modified_at]
                          ELSE after = before
           ELSE /\ m.self.tasks = hourglass.tasks
                /\ m.dir = dir

\* C16: Enter in the Update view with a valid selection sets only the
\* selected task's description, to the buffer, and its modified_at, to a
\* value not earlier than the one before; its id, completed and created_at
\* and every other task stay; with no selection or a stale one the store and
\* the storage file stay; in every case the buffer is cleared and the view is
\* the task view again.
C16_UpdateCommit ==
    (pc = "run" /\ hourglass.view = "Update") =>
        \A now \in 0..MaxClock :
            /\ UpdateCommitEffect(now)
            /\ ValidSelection =>
                  LET m == handle_input(Machine(hourglass, dir, clock),
                                        Key("Enter"), now, "ok", overflow_checks)
                      n == Selected[1] + 1
                  IN  m.self.tasks[n].modified_at >= hourglass.tasks[n].modified_at

(***************************************************************************)
(* Typing on the input line of the Add and Update views, short of Enter:   *)
(* 'a' or 'u' from the task view, then any key but Enter, every character  *)
(* included, on a buffer of up to TextInput characters.                    *)
(***************************************************************************)
TextInput == 2

TextKeys(self) ==
    IF self.view = "View" THEN {Char("a"), Char("u")}
    ELSE KeyCodes \ {Key("Enter")}

\* One iteration of run's loop on the key event `key`
TextPress(key) ==
    /\ pc = "run"
    /\ LET m == handle_input(Machine(hourglass, dir, clock), key, clock, "ok",
                             overflow_checks)
       IN  /\ Len(m.self.input) <= TextInput
           /\ Handled(m)
    /\ UNCHANGED overflow_checks

TextKey == \E key \in TextKeys(hourglass) : TextPress(key)

TextNext ==
    \/ TextKey
    \/ RunNoKey

SpecText == EditInit /\ [][TextNext]_vars

\* C17: in the Add and the Update view every key other than Enter (the
\* characters q, j, k, d, a, u, x, Backspace, Esc, Up and Down, among
\* others) leaves the store, the selection, the quit flag and the storage
\* file as they are; only the buffer changes, and for Esc the view.
C17_PendingKeysOnlyEdit ==
    (pc = "run" /\ hourglass.view # "View") =>
        \A key \in KeyCodes \ {Key("Enter")} :
            LET m == handle_input(Machine(hourglass, dir, clock), key, clock,
                                  "ok", overflow_checks)
            IN  /\ ~m.panic
                /\ m.self.tasks = hourglass.tasks
                /\ m.self.table_state = Selected
                /\ m.self.should_quit = hourglass.should_quit
                /\ ~m.self.should_quit
                /\ m.dir = dir
                /\ m.self.next_id = hourglass.next_id
                /\ key.code # "Esc" => m.self.view = hourglass.view
                /\ key.code \notin {"Char", "Backspace", "Esc"} =>
                      m.self.input = hourglass.input

\* 'x' then 'q' has been typed on the input line of a session with a
\* selected task, and the session goes on
C17_Witness ==
    /\ pc = "run"
    /\ hourglass.view # "View"
    /\ hourglass.input = <<"x", "q">>
    /\ ValidSelection
    /\ StorageFile = to_string(hourglass.tasks)

\* C18: whenever the view is the task view the input buffer is empty: it is
\* empty at startup, every commit and every cancel empties it, and no key of
\* the task view writes to it; so the Add and Update views start empty.
C18_BrowsingBufferEmpty ==
    hourglass.view = "View" => hourglass.input = <<>>

\* Back in the task view after a commit of a non-empty buffer
C18_Witness ==
    /\ Browsing
    /\ Len(hourglass.tasks) > 0
    /\ hourglass.tasks[1].description # <<>>
    /\ hourglass.input = <<>>

\* C19: 'x' in the task view with a valid selection i, the write succeeding,
\* removes exactly the task at position i: the store is one shorter, the
\* tasks before i stay where they are and those after i move down by one,
\* each with all its fields; with no selection the store is unchanged.
C19_RemoveSelected ==
    Browsing =>
        LET m == handle_input(Machine(hourglass, dir, clock), Char("x"), clock,
                              "ok", overflow_checks)
            len == Len(hourglass.tasks)
        IN  /\ Selected = None =>
                  /\ ~m.panic
                  /\ m.self.tasks = hourglass.tasks
                  /\ m.dir = dir
            /\ ValidSelection =>
                  /\ ~m.panic
                  /\ Len(m.self.tasks) = len - 1
                  /\ \A n \in 1..len :
                        /\ n < Selected[1] + 1 =>
                              m.self.tasks[n] = hourglass.tasks[n]
                        /\ n > Selected[1] + 1 =>
                              m.self.tasks[n - 1] = hourglass.tasks[n]

\* The middle one of three tasks has been removed and the store saved
C19_Witness ==
    /\ Browsing
    /\ Len(hourglass.tasks) = 2
    /\ hourglass.tasks[1].id = 1
    /\ hourglass.tasks[2].id = 3
    /\ retired = {2}
    /\ StorageFile = to_string(hourglass.tasks)

\* C20: 'q' in the task view sets the quit flag and changes nothing else, no
\* handler clears the flag, and the run loop returns before it reads another
\* key: the loop never waits for a key with the flag set, so store, selection
\* and storage file stay as 'q' found them.  'q' typed in the Add or Update
\* view does not set the flag.
C20_QuitIsFinal ==
    pc = "run" =>
        LET m == Machine(hourglass, dir, clock)
            q == handle_input(m, Char("q"), clock, "ok", overflow_checks)
        IN  /\ ~hourglass.should_quit
            /\ ~q.panic
            /\ q.dir = dir
            /\ IF hourglass.view = "View"
               THEN /\ q.self = [hourglass EXCEPT !.should_quit = TRUE]
                    /\ \A key \in KeyCodes, now \in clock..MaxClock :
                          handle_input(q, key, now, "ok", overflow_checks)
                              .self.should_quit
               ELSE /\ ~q.self.should_quit
                    /\ q.self.tasks = hourglass.tasks
                    /\ q.self.table_state = Selected
                    /\ q.self.view = hourglass.view

\* run has returned Ok after 'q', leaving a saved task in the storage file
C20_Witness ==
    /\ pc = "exited"
    /\ result = "ok"
    /\ StorageFile.kind = "json"
    /\ Len(StorageFile.items) > 0

====
